---- MODULE Spec2Model ----
(***************************************************************************)
(* File2Link bot (src/file.py): the file transfer pipeline of handle_file. *)
(*                                                                         *)
(* handle_file is a coroutine.  It is suspended at every `await`; the code *)
(* between two awaits runs without interruption (one asyncio event loop).  *)
(* A transfer's pc names the await it is suspended at, the call of that    *)
(* await being already issued.  An action resumes the coroutine with the   *)
(* outcome of the awaited call and runs the synchronous code up to the     *)
(* next await (issuing its call) or to the end of the handler, the         *)
(* `finally` block included.  upload_to_google_drive and shorten_url are   *)
(* synchronous functions: they run inside the step that reaches them.      *)
(*                                                                         *)
(* Outcome of an awaited call: "ok" (it returned), "err" (it raised an     *)
(* Exception), "cancel" (asyncio.CancelledError was raised at the await).  *)
(* A message counts as delivered when its send/edit call returned.         *)
(***************************************************************************)
EXTENDS Integers, Sequences, FiniteSets, TLC

\* ---- bounds ----
MaxTransfers == 2   \* handle_file invocations in one process lifetime
MaxChunks == 2      \* chunks iter_download yields for one file
MaxUsers == 1       \* distinct user ids

\* ---- program constants ----
KiB == 1024
MiB == KiB * KiB
TELEGRAM_LIMIT_MIB == 2000          \* `2000 * 1024 * 1024`, in MiB
MAX_FILE_SIZE_MIB == 5 * KiB        \* MAX_FILE_SIZE = 5 * 1024 * 1024 * 1024, in MiB
PROGRESS_STEP == 5 * MiB            \* `5 * 1024 * 1024`
\* main() builds the Application without concurrent_updates and registers
\* handle_file as a blocking handler: one update is processed at a time
MaxInFlight == 1

\* A declared size can exceed 2^31, beyond TLC's integers: it is kept as
\* mib * 2^20 + rem with 0 <= rem < 2^20 (Python integers are unbounded).
\* known = FALSE is Python's None.
Size(m, r) == [known |-> TRUE, mib |-> m, rem |-> r]
NoSize == [known |-> FALSE, mib |-> 0, rem |-> 0]
\* `file_size > limit` for a limit of limitMib MiB
Exceeds(s, limitMib) == s.mib > limitMib \/ (s.mib = limitMib /\ s.rem > 0)
\* Python truthiness of file_size: None and 0 are false
Truthy(s) == s.known /\ (s.mib > 0 \/ s.rem > 0)

\* declared sizes tried: None, 0, the channel ceiling and one byte above it (a
\* size between the two ceilings), the store ceiling and one byte above it
FileSizes ==
    { NoSize, Size(0, 0), Size(TELEGRAM_LIMIT_MIB, 0), Size(TELEGRAM_LIMIT_MIB, 1),
      Size(MAX_FILE_SIZE_MIB, 0), Size(MAX_FILE_SIZE_MIB, 1) }

\* user ids; 0 stands for `update.effective_user` being None
Users == 1 .. MaxUsers
\* what the message carries: one of the six media kinds or none of them
Kinds == {"file", "unsupported"}
\* (an update without a message carries no media, and only a media object
\* has a file_size; without a user the message is not looked into)
Updates ==
    { u \in [user : Users \cup {0}, hasMsg : BOOLEAN, kind : Kinds,
             file_size : FileSizes] :
        /\ u.user = 0 => u.kind = "unsupported"
        /\ ~u.hasMsg => u.kind = "unsupported"
        /\ u.kind = "unsupported" => u.file_size = NoSize }

Outcomes == {"ok", "err", "cancel"}
ChatStatuses == {"member", "administrator", "creator", "left", "kicked"}

\* URLs: none (Python None), the Drive download URL of a file id, or the
\* alias TinyURL answered for it
NoUrl == [kind |-> "none", id |-> 0]
DriveUrl(fileId) == [kind |-> "drive", id |-> fileId]
TinyUrl(long) == [kind |-> "tiny", id |-> long.id]

\* chunk lengths iter_download may yield, and what Path B may write
ChunkSizes == {PROGRESS_STEP, PROGRESS_STEP \div 2}
PathBSizes == {3 * MiB}

\* the temporary file of a transfer: who wrote its content last, and how much
NoFile == [exists |-> FALSE, src |-> "none", bytes |-> 0]

VARIABLES
    tr,                       \* per handler slot: the handle_file invocation
                              \* running in it, or the last one that ran
    started,                  \* number of handle_file invocations so far
    user_subscription_status, \* the ids cached as subscribed
    TELEGRAM_BOT_FOLDER_ID,   \* cached folder id, 0 for None
    telethon_client,          \* "None" or "client"
    drive,                    \* the storage provider: folders named "Telegram Bot",
                              \* list/create calls received
    totals                    \* over all transfers: admitted, links delivered,
                              \* admin sends

vars == <<tr, started, user_subscription_status, TELEGRAM_BOT_FOLDER_ID,
          telethon_client, drive, totals>>

NoCalls == [pathA |-> 0, pathB |-> 0, publish |-> 0, shorten |-> 0, notify |-> 0]

\* the local state of one invocation, before its first statement
Fresh(u) ==
    [ pc |-> "idle", upd |-> u, id |-> 0, gate |-> "none",
      temp_file_path |-> FALSE, file |-> NoFile,
      downloaded |-> 0, chunks |-> 0, progress |-> 0, downloaded_size |-> 0,
      drive_url |-> NoUrl, short_url |-> NoUrl, parent |-> 0,
      phases |-> <<>>, reason |-> "none", raised |-> "none",
      sent |-> {}, delivered |-> {}, linkUrl |-> NoUrl,
      calls |-> NoCalls, pathA |-> "none", pathB |-> "none",
      publishFail |-> "none", shortenFailed |-> FALSE, notifyFailed |-> FALSE,
      unlinks |-> 0, unlinkFailed |-> FALSE, progressFailed |-> FALSE,
      partial |-> FALSE, published |-> NoFile, checkFailed |-> FALSE ]

NoUpdate == [user |-> 0, hasMsg |-> FALSE, kind |-> "unsupported", file_size |-> NoSize]

Init ==
    /\ tr = [t \in 1 .. MaxInFlight |-> Fresh(NoUpdate)]
    /\ started = 0
    /\ user_subscription_status = {}
    /\ TELEGRAM_BOT_FOLDER_ID = 0
    /\ telethon_client = "None"
    /\ drive \in [folders : {0, 1}, lists : {0}, creates : {0}, created : {0}]
    /\ totals = [admitted |-> 0, links |-> 0, notified |-> 0]

-----------------------------------------------------------------------------
\* ---- pure parts of the code ----

\* SizeGate with the two checks in the other order
SizeGate_StoreFirst(file_size) ==
    IF Truthy(file_size) /\ Exceeds(file_size, MAX_FILE_SIZE_MIB)
      THEN "TooLargeForStore"
    ELSE IF Truthy(file_size) /\ Exceeds(file_size, TELEGRAM_LIMIT_MIB)
      THEN "TooLargeForChannel"
    ELSE "Admitted"

\* SizeGate with `>=` for `>` in the channel check
SizeGate_Inclusive(file_size) ==
    IF Truthy(file_size) /\ (Exceeds(file_size, TELEGRAM_LIMIT_MIB)
                              \/ file_size = Size(TELEGRAM_LIMIT_MIB, 0))
      THEN "TooLargeForChannel"
    ELSE IF Truthy(file_size) /\ Exceeds(file_size, MAX_FILE_SIZE_MIB)
      THEN "TooLargeForStore"
    ELSE "Admitted"

\* handle_file, lines 379-387: the two size checks, in the code's order
SizeGate(file_size) ==
    IF Truthy(file_size) /\ Exceeds(file_size, TELEGRAM_LIMIT_MIB)
      THEN "TooLargeForChannel"
    ELSE IF Truthy(file_size) /\ Exceeds(file_size, MAX_FILE_SIZE_MIB)
      THEN "TooLargeForStore"
    ELSE "Admitted"

\* get_chat_member raised, or answered a status that is no membership
CheckFailed(o, status) ==
    o = "err" \/ (o = "ok" /\ status \notin {"member", "administrator", "creator"})

\* check_subscription without its try/except, the caller taking an error
\* for a membership
IsSubscribed_TrueOnError(o, status) ==
    o = "err" \/ (o = "ok" /\ status \in {"member", "administrator", "creator"})

\* check_subscription: the answer for a get_chat_member outcome
IsSubscribed(o, status) ==
    o = "ok" /\ status \in {"member", "administrator", "creator"}

\* shorten_url returning None when the service failed
shorten_url_NoneOnFailure(long_url, resp) ==
    IF resp = "200" THEN TinyUrl(long_url) ELSE NoUrl

\* shorten_url: resp is "200" (status 200), "non200", or "raise" (requests.get raised)
ShortenResponses == {"200", "non200", "raise"}
shorten_url(long_url, resp) ==
    IF resp = "200" THEN TinyUrl(long_url) ELSE long_url

\* get_or_create_folder without its `global` statement: the id is never cached
get_or_create_folder_NoGlobal(cache, d, fail) ==
    LET d1 == [d EXCEPT !.lists = @ + 1] IN
      IF fail = "list"
        THEN [ok |-> FALSE, id |-> 0, cache |-> cache, drive |-> d1]
      ELSE IF d1.folders > 0
        THEN [ok |-> TRUE, id |-> 1, cache |-> cache, drive |-> d1]
      ELSE LET d2 == [d1 EXCEPT !.creates = @ + 1] IN
        IF fail \in {"create", "createLost"}
          THEN [ok |-> FALSE, id |-> 0, cache |-> cache, drive |-> d2]
        ELSE [ok |-> TRUE, id |-> d2.folders + 1, cache |-> cache,
              drive |-> [d2 EXCEPT !.folders = @ + 1, !.created = @ + 1]]

\* get_or_create_folder.  fail names the first call of publish that raises
\* ("createLost": the create call raised although the provider made the folder).
\* Folder k of the provider has id k; the list call answers folder 1 first.
\* Result: ok (FALSE when a call raised), the id, the new cache, the provider.
get_or_create_folder(cache, d, fail) ==
    IF cache # 0
      THEN [ok |-> TRUE, id |-> cache, cache |-> cache, drive |-> d]
    ELSE LET d1 == [d EXCEPT !.lists = @ + 1] IN
      IF fail = "list"
        THEN [ok |-> FALSE, id |-> 0, cache |-> cache, drive |-> d1]
      ELSE IF d1.folders > 0
        THEN [ok |-> TRUE, id |-> 1, cache |-> 1, drive |-> d1]
      ELSE LET d2 == [d1 EXCEPT !.creates = @ + 1] IN
        IF fail = "create"
          THEN [ok |-> FALSE, id |-> 0, cache |-> cache, drive |-> d2]
        ELSE IF fail = "createLost"
          THEN [ok |-> FALSE, id |-> 0, cache |-> cache,
                drive |-> [d2 EXCEPT !.folders = @ + 1]]
        ELSE [ok |-> TRUE, id |-> d2.folders + 1, cache |-> d2.folders + 1,
              drive |-> [d2 EXCEPT !.folders = @ + 1, !.created = @ + 1]]

\* upload_to_google_drive building the URL although the permission call raised
upload_to_google_drive_IgnoresPermission(cache, d, fileId, fail) ==
    IF fail = "auth"
      THEN [url |-> NoUrl, parent |-> 0, cache |-> cache, drive |-> d]
    ELSE LET f == get_or_create_folder(cache, d, fail) IN
      IF ~f.ok \/ fail \in {"media", "upload"}
        THEN [url |-> NoUrl, parent |-> f.id, cache |-> f.cache, drive |-> f.drive]
      ELSE [url |-> DriveUrl(fileId), parent |-> f.id, cache |-> f.cache,
            drive |-> f.drive]

\* upload_to_google_drive: authenticate, resolve the folder, open the local
\* file, create the object with its content, make it public, build the URL;
\* any exception gives None.
PublishFailures ==
    {"none", "auth", "list", "create", "createLost", "media", "upload", "permission"}
upload_to_google_drive(cache, d, fileId, fail) ==
    IF fail = "auth"
      THEN [url |-> NoUrl, parent |-> 0, cache |-> cache, drive |-> d]
    ELSE LET f == get_or_create_folder(cache, d, fail) IN
      IF ~f.ok \/ fail \in {"media", "upload", "permission"}
        THEN [url |-> NoUrl, parent |-> f.id, cache |-> f.cache, drive |-> f.drive]
      ELSE [url |-> DriveUrl(fileId), parent |-> f.id, cache |-> f.cache,
            drive |-> f.drive]

\* does call `fail` of publish get executed (and so raise) from this state:
\* the list call only without a cached id, the create call only when the
\* list found no folder
PublishStepFails(cache, d, fail) ==
    \/ fail \in {"auth", "media", "upload", "permission"}
    \/ fail = "list" /\ cache = 0
    \/ fail \in {"create", "createLost"} /\ cache = 0 /\ d.folders = 0

\* ---- the handler's exits ----
Last(s) == IF Len(s) = 0 THEN "None" ELSE s[Len(s)]
Phase(r) == Last(r.phases)
Terminal == {"Completed", "Aborted"}

Issue(r, msg) == [r EXCEPT !.sent = @ \cup {msg}]
Deliver(r, msg) == [r EXCEPT !.delivered = @ \cup {msg}]
Enter(r, phase) == [r EXCEPT !.phases = Append(@, phase)]

\* a Transfer (an admitted request) that has not ended yet ends Aborted
Abort(r, why) ==
    IF Phase(r) \in Terminal \cup {"None"} THEN r
    ELSE [Enter(r, "Aborted") EXCEPT !.reason = why]

\* the cleanup at the end of the try body instead of a finally block: it is
\* skipped when the transfer did not complete
Finally_OnlyAfterSuccess(r, unlinkOk) ==
    IF r.temp_file_path /\ r.file.exists /\ Phase(r) = "Completed"
      THEN [r EXCEPT !.unlinks = @ + 1, !.unlinkFailed = ~unlinkOk,
                     !.file = IF unlinkOk THEN NoFile ELSE @]
    ELSE r

\* lines 457-463: the finally block
Finally(r, unlinkOk) ==
    IF r.temp_file_path /\ r.file.exists
      THEN [r EXCEPT !.unlinks = @ + 1, !.unlinkFailed = ~unlinkOk,
                     !.file = IF unlinkOk THEN NoFile ELSE @]
    ELSE r

\* os.unlink is called only for a file that exists; it returns or raises
UnlinkOutcomes(r) == IF r.temp_file_path /\ r.file.exists THEN BOOLEAN ELSE {TRUE}

\* the cleanup written after the try statement instead of in a finally
\* block: it is not reached when the handler leaves by raising
Return_CleanupAfterTry(r, raised, unlinkOk) ==
    [(IF raised = "none" THEN Finally(r, unlinkOk) ELSE r)
       EXCEPT !.pc = "done", !.raised = raised]

\* the handler ends: normally (raised = "none") or by raising
Return(r, raised, unlinkOk) ==
    [Finally(r, unlinkOk) EXCEPT !.pc = "done", !.raised = raised]

\* an except clause that only logs
Except_LogOnly(r) == Return(Abort(r, "Error"), "none", TRUE)

\* lines 453-455: an Exception inside the try block
Except(r) == [Issue(Abort(r, "Error"), "sorry") EXCEPT !.pc = "sorryReply"]

\* the cleanup in an `except Exception` clause instead of a finally block:
\* a CancelledError passes it by
Raise_CancelSkipsCleanup(r, o, unlinkOk) ==
    IF o = "err" THEN Except(r)
    ELSE [Abort(r, "Cancelled") EXCEPT !.pc = "done", !.raised = "CancelledError"]

\* an awaited call inside the try block did not return: Exception goes to the
\* except clause, CancelledError (no Exception) only through finally
Raise(r, o, unlinkOk) ==
    IF o = "err" THEN Except(r)
    ELSE Return(Abort(r, "Cancelled"), "CancelledError", unlinkOk)

-----------------------------------------------------------------------------
\* ---- handle_file, one action per await ----

globals == <<user_subscription_status, TELEGRAM_BOT_FOLDER_ID, telethon_client,
             drive, totals>>
Set(t, r) == tr' = [tr EXCEPT ![t] = r]

\* the try block without the `return` after a rejection: the download is
\* announced whatever the gate said
TryBlock_NoReturnOnReject(r) ==
    IF ~r.upd.hasMsg THEN Return(r, "none", TRUE)
    ELSE IF r.upd.kind = "unsupported"
      THEN [Issue(r, "unsupported") EXCEPT !.pc = "unsupportedReply"]
    ELSE LET g == SizeGate(r.upd.file_size)
             rg == [r EXCEPT !.gate = g] IN
      [Issue(Issue(rg, g), "status") EXCEPT !.pc = "statusReply"]

\* lines 342-390: from the start of the try block to the first await
TryBlock(r) ==
    IF ~r.upd.hasMsg THEN Return(r, "none", TRUE)
    ELSE IF r.upd.kind = "unsupported"
      THEN [Issue(r, "unsupported") EXCEPT !.pc = "unsupportedReply"]
    ELSE LET g == SizeGate(r.upd.file_size)
             rg == [r EXCEPT !.gate = g] IN
      IF g = "Admitted"
        THEN [Issue(Enter(rg, "Admitted"), "status") EXCEPT !.pc = "statusReply"]
      ELSE [Issue(rg, g) EXCEPT !.pc = "rejectReply"]

\* lines 315-340: an update arrives; up to the first await
Start(t) ==
    /\ tr[t].pc \in {"idle", "done"}
    /\ started < MaxTransfers
    /\ started' = started + 1
    /\ \E u \in Updates :
         LET r == [Fresh(u) EXCEPT !.id = started + 1] IN
           Set(t, IF u.user = 0
                    THEN IF u.hasMsg
                           THEN [Issue(r, "noUser") EXCEPT !.pc = "noUserReply"]
                           ELSE Return(r, "none", TRUE)
                  ELSE IF u.user \notin user_subscription_status
                    THEN [r EXCEPT !.pc = "checkSub"]
                  ELSE TryBlock(r))
    /\ totals' = [totals EXCEPT !.admitted = @ + Len(tr'[t].phases)]
    /\ UNCHANGED <<user_subscription_status, TELEGRAM_BOT_FOLDER_ID,
                   telethon_client, drive>>

\* lines 320-325: the reply is inside try / bare except, then return
NoUserReply(t) ==
    /\ tr[t].pc = "noUserReply"
    /\ \E o \in Outcomes :
         Set(t, Return(IF o = "ok" THEN Deliver(tr[t], "noUser") ELSE tr[t],
                       "none", TRUE))
    /\ UNCHANGED <<started, globals>>

\* lines 333-340 with check_subscription (94-107)
CheckSub(t) ==
    /\ tr[t].pc = "checkSub"
    /\ \E o \in Outcomes, status \in ChatStatuses :
         IF o = "cancel"
           THEN /\ Set(t, Return(tr[t], "CancelledError", TRUE))
                /\ UNCHANGED user_subscription_status
         ELSE LET r == [tr[t] EXCEPT !.checkFailed = CheckFailed(o, status)] IN
           IF IsSubscribed(o, status)
           THEN /\ user_subscription_status' =
                     user_subscription_status \cup {tr[t].upd.user}
                /\ Set(t, TryBlock(r))
         ELSE /\ UNCHANGED user_subscription_status
              /\ Set(t, IF r.upd.hasMsg
                          THEN [Issue(r, "notSubscribed")
                                  EXCEPT !.pc = "notSubReply"]
                          ELSE Return(r, "none", TRUE))
    /\ totals' = [totals EXCEPT !.admitted = @ + Len(tr'[t].phases)]
    /\ UNCHANGED <<started, TELEGRAM_BOT_FOLDER_ID, telethon_client, drive>>

\* line 339, outside the try block: an error leaves the handler
NotSubReply(t) ==
    /\ tr[t].pc = "notSubReply"
    /\ \E o \in Outcomes :
         Set(t, IF o = "ok" THEN Return(Deliver(tr[t], "notSubscribed"), "none", TRUE)
                ELSE IF o = "err" THEN Return(tr[t], "Exception", TRUE)
                ELSE Return(tr[t], "CancelledError", TRUE))
    /\ UNCHANGED <<started, globals>>

\* a reply or status edit after which the code returns
ReplyThenReturn(t, at, msg) ==
    /\ tr[t].pc = at
    /\ \E o \in Outcomes, unlinkOk \in UnlinkOutcomes(tr[t]) :
         Set(t, IF o = "ok" THEN Return(Deliver(tr[t], msg), "none", unlinkOk)
                ELSE Raise(tr[t], o, unlinkOk))
    /\ UNCHANGED <<started, globals>>

\* lines 366-367
UnsupportedReply(t) == ReplyThenReturn(t, "unsupportedReply", "unsupported")
\* lines 381-382 and 386-387
RejectReply(t) == ReplyThenReturn(t, "rejectReply", tr[t].gate)
\* lines 410-411
DownloadFailedEdit(t) == ReplyThenReturn(t, "downloadFailedEdit", "downloadFailed")
\* lines 426-427
UploadFailedEdit(t) == ReplyThenReturn(t, "uploadFailedEdit", "uploadFailed")

\* line 455, then finally; an error of this reply leaves the handler
SorryReply(t) ==
    /\ tr[t].pc = "sorryReply"
    /\ \E o \in Outcomes, unlinkOk \in UnlinkOutcomes(tr[t]) :
         Set(t, IF o = "ok" THEN Return(Deliver(tr[t], "sorry"), "none", unlinkOk)
                ELSE IF o = "err" THEN Return(tr[t], "Exception", unlinkOk)
                ELSE Return(tr[t], "CancelledError", unlinkOk))
    /\ UNCHANGED <<started, globals>>

-----------------------------------------------------------------------------
\* ---- the download stage ----

\* download_with_telethon returns: its locals are gone
LeavePathA(r) ==
    [r EXCEPT !.downloaded = 0, !.chunks = 0, !.progress = 0, !.progressFailed = FALSE]

\* lines 400-407: Path A returned False, the standard method is tried
BeginPathB(r) ==
    [LeavePathA(r) EXCEPT !.calls.pathB = @ + 1, !.pathB = "running", !.pc = "getFile"]

\* the standard method tried again after it raised
DownloadFailed_Retries(r) == BeginPathB(r)

\* lines 408-410: the standard method raised
DownloadFailed(r) ==
    [Issue(Abort(r, "DownloadFailed"), "downloadFailed")
       EXCEPT !.pc = "downloadFailedEdit"]

\* no fallback: a failed Path A ends the download stage
PathAFailed_NoFallback(r) ==
    DownloadFailed([r EXCEPT !.pathA = "failed", !.partial = (r.file.bytes > 0)])

\* download_with_telethon, lines 311-313: any Exception makes it return
\* False, and handle_file (line 400) falls back to the standard method
\* (partial: Path A had written bytes to the file by then)
PathAFailed(r) ==
    BeginPathB([r EXCEPT !.pathA = "failed", !.partial = (r.file.bytes > 0)])

\* lines 413-417: a path succeeded (progressFailed, whether a progress edit
\* of Path A failed, is kept until the handler is resumed after line 417)
Downloaded(r) ==
    [Issue(Enter(LeavePathA(r), "Downloaded"), "downloadComplete")
       EXCEPT !.pc = "downloadCompleteEdit", !.downloaded_size = r.file.bytes,
              !.progressFailed = r.progressFailed]

\* line 390 returns; lines 392-398 and 281-285.  nameOk: file_name is a
\* string and the temporary file could be created
StatusReply(t) ==
    /\ tr[t].pc = "statusReply"
    /\ \E o \in Outcomes, unlinkOk \in UnlinkOutcomes(tr[t]), nameOk \in BOOLEAN :
         IF o # "ok"
           THEN Set(t, Raise(tr[t], o, unlinkOk)) /\ UNCHANGED telethon_client
         ELSE IF ~nameOk
           THEN Set(t, Except(Deliver(tr[t], "status"))) /\ UNCHANGED telethon_client
         ELSE LET r == [Enter(Deliver(tr[t], "status"), "Downloading")
                          EXCEPT !.temp_file_path = TRUE,
                                 !.file = [exists |-> TRUE, src |-> "none", bytes |-> 0],
                                 !.calls.pathA = @ + 1, !.pathA = "running"] IN
           /\ telethon_client' = "client"
           /\ Set(t, [r EXCEPT !.pc = IF telethon_client = "None"
                                        THEN "telethonStart" ELSE "getMe"])
    /\ UNCHANGED <<started, user_subscription_status, TELEGRAM_BOT_FOLDER_ID,
                   drive, totals>>

\* an await of download_with_telethon that raised: Exception is caught by
\* its except clause, CancelledError leaves handle_file through finally
PathAAwait(r, o, unlinkOk) ==
    IF o = "err" THEN PathAFailed(r) ELSE Raise(LeavePathA(r), o, unlinkOk)

\* line 285
TelethonStart(t) ==
    /\ tr[t].pc = "telethonStart"
    /\ \E o \in Outcomes, unlinkOk \in UnlinkOutcomes(tr[t]) :
         Set(t, IF o = "ok" THEN [tr[t] EXCEPT !.pc = "getMe"]
                ELSE PathAAwait(tr[t], o, unlinkOk))
    /\ UNCHANGED <<started, globals>>

\* lines 289-290: get_me returns, then int(file_id); numeric: file_id is a
\* string of digits
GetMe(t) ==
    /\ tr[t].pc = "getMe"
    /\ \E o \in Outcomes, unlinkOk \in UnlinkOutcomes(tr[t]), numeric \in BOOLEAN :
         Set(t, IF o = "ok"
                  THEN IF numeric THEN [tr[t] EXCEPT !.pc = "getMessages"]
                       ELSE PathAFailed(tr[t])
                ELSE PathAAwait(tr[t], o, unlinkOk))
    /\ UNCHANGED <<started, globals>>

\* lines 288-299: get_messages returns; found: a message with media
GetMessages(t) ==
    /\ tr[t].pc = "getMessages"
    /\ \E o \in Outcomes, unlinkOk \in UnlinkOutcomes(tr[t]), found \in BOOLEAN :
         Set(t, IF o = "ok"
                  THEN IF found
                         THEN [tr[t] EXCEPT !.pc = "iterDownload", !.downloaded = 0,
                                 !.file = [exists |-> TRUE, src |-> "A", bytes |-> 0]]
                       ELSE PathAFailed(tr[t])
                ELSE PathAAwait(tr[t], o, unlinkOk))
    /\ UNCHANGED <<started, globals>>

\* line 304: is a progress edit due after this chunk
ProgressDue(downloaded) == downloaded % PROGRESS_STEP = 0

\* lines 300-306: one chunk of length c arrived
WriteChunk(r, c) ==
    LET w == [r EXCEPT !.file.bytes = @ + c, !.downloaded = @ + c, !.chunks = @ + 1] IN
      IF ProgressDue(w.downloaded)
        THEN [w EXCEPT !.pc = "progressEdit", !.progress = @ + 1]
      ELSE w

\* line 299: the iterator yields a chunk, ends, or raises
IterDownload(t) ==
    /\ tr[t].pc = "iterDownload"
    /\ \/ \E c \in ChunkSizes :
            /\ tr[t].chunks < MaxChunks
            /\ Set(t, WriteChunk(tr[t], c))
       \/ Set(t, Downloaded([tr[t] EXCEPT !.pathA = "ok"]))
       \/ \E o \in {"err", "cancel"}, unlinkOk \in UnlinkOutcomes(tr[t]) :
            Set(t, PathAAwait(tr[t], o, unlinkOk))
    /\ UNCHANGED <<started, globals>>

\* the progress edit without its try/except: what it raises leaves the loop
ProgressEdit_Propagates(t) ==
    /\ tr[t].pc = "progressEdit"
    /\ \E o \in Outcomes, unlinkOk \in UnlinkOutcomes(tr[t]) :
         Set(t, IF o = "ok" THEN [tr[t] EXCEPT !.pc = "iterDownload"]
                ELSE PathAAwait([tr[t] EXCEPT !.progressFailed = TRUE], o, unlinkOk))
    /\ UNCHANGED <<started, globals>>

\* lines 305-308: the bare except swallows whatever the edit raised
ProgressEdit(t) ==
    /\ tr[t].pc = "progressEdit"
    /\ \E o \in Outcomes :
         Set(t, [tr[t] EXCEPT !.pc = "iterDownload",
                              !.progressFailed = @ \/ (o # "ok")])
    /\ UNCHANGED <<started, globals>>

\* an await of the standard method that raised (lines 408-411)
PathBAwait(r, o, unlinkOk) ==
    IF o = "err" THEN DownloadFailed([r EXCEPT !.pathB = "failed"])
    ELSE Raise(r, o, unlinkOk)

\* line 404
GetFile(t) ==
    /\ tr[t].pc = "getFile"
    /\ \E o \in Outcomes, unlinkOk \in UnlinkOutcomes(tr[t]) :
         Set(t, IF o = "ok" THEN [tr[t] EXCEPT !.pc = "downloadToDrive"]
                ELSE PathBAwait(tr[t], o, unlinkOk))
    /\ UNCHANGED <<started, globals>>

\* a standard download that appended to the file it is given
download_to_drive_Appends(file, b) ==
    [exists |-> TRUE, src |-> IF file.bytes > 0 THEN "AB" ELSE "B",
     bytes |-> file.bytes + b]

\* file.download_to_drive(temp_file_path): the b bytes fetched replace
\* whatever the file at that path held
download_to_drive(file, b) == [exists |-> TRUE, src |-> "B", bytes |-> b]

\* line 407 returns; lines 413-417
DownloadToDrive(t) ==
    /\ tr[t].pc = "downloadToDrive"
    /\ \E o \in Outcomes, unlinkOk \in UnlinkOutcomes(tr[t]), b \in PathBSizes :
         Set(t, IF o = "ok"
                  THEN Downloaded([tr[t] EXCEPT !.pathB = "ok",
                         !.file = download_to_drive(tr[t].file, b)])
                ELSE PathBAwait(tr[t], o, unlinkOk))
    /\ UNCHANGED <<started, globals>>

-----------------------------------------------------------------------------
\* ---- publish, shorten, deliver, notify ----

\* line 417 returns; line 420
DownloadCompleteEdit(t) ==
    /\ tr[t].pc = "downloadCompleteEdit"
    /\ \E o \in Outcomes, unlinkOk \in UnlinkOutcomes(tr[t]) :
         LET r == [tr[t] EXCEPT !.progressFailed = FALSE] IN
         Set(t, IF o = "ok"
                  THEN [Issue(Deliver(r, "downloadComplete"), "uploading")
                          EXCEPT !.pc = "uploadingEdit"]
                ELSE Raise(r, o, unlinkOk))
    /\ UNCHANGED <<started, globals>>

\* the admin notification sent as soon as the upload returned a URL
AfterUpload_NotifiesEarly(r, url) ==
    IF url = NoUrl
      THEN [Issue(Abort(r, "PublishFailed"), "uploadFailed")
              EXCEPT !.pc = "uploadFailedEdit"]
    ELSE [Issue(Enter(r, "Uploaded"), "shortening")
            EXCEPT !.pc = "shorteningEdit", !.calls.notify = @ + 1]

\* handle_file without the `if not drive_url` check of line 425
AfterUpload_ShortensAnyway(r, url) ==
    [Issue(Enter(r, "Uploaded"), "shortening") EXCEPT !.pc = "shorteningEdit"]

\* lines 425-430: what handle_file does with the result of the upload
AfterUpload(r, url) ==
    IF url = NoUrl
      THEN [Issue(Abort(r, "PublishFailed"), "uploadFailed")
              EXCEPT !.pc = "uploadFailedEdit"]
    ELSE [Issue(Enter(r, "Uploaded"), "shortening") EXCEPT !.pc = "shorteningEdit"]

\* line 420 returns; lines 423-430 with upload_to_google_drive (236-273)
UploadingEdit(t) ==
    /\ tr[t].pc = "uploadingEdit"
    /\ \E o \in Outcomes, unlinkOk \in UnlinkOutcomes(tr[t]), fail \in PublishFailures :
         IF o # "ok"
           THEN /\ Set(t, Raise(tr[t], o, unlinkOk))
                /\ UNCHANGED <<TELEGRAM_BOT_FOLDER_ID, drive>>
         ELSE LET res == upload_to_google_drive(TELEGRAM_BOT_FOLDER_ID, drive,
                                                tr[t].id, fail)
                  r == [Enter(Deliver(tr[t], "uploading"), "Uploading")
                          EXCEPT !.calls.publish = @ + 1, !.drive_url = res.url,
                                 !.parent = res.parent,
                                 !.published =
                                    IF res.url = NoUrl THEN NoFile ELSE tr[t].file,
                                 !.publishFail =
                                    IF PublishStepFails(TELEGRAM_BOT_FOLDER_ID, drive, fail)
                                      THEN fail ELSE "ok"] IN
           /\ TELEGRAM_BOT_FOLDER_ID' = res.cache
           /\ drive' = res.drive
           /\ Set(t, AfterUpload(r, res.url))
    /\ UNCHANGED <<started, user_subscription_status, telethon_client, totals>>

\* line 430 returns; lines 431-448 with shorten_url (56-69)
ShorteningEdit(t) ==
    /\ tr[t].pc = "shorteningEdit"
    /\ \E o \in Outcomes, unlinkOk \in UnlinkOutcomes(tr[t]), resp \in ShortenResponses :
         Set(t, IF o = "ok"
                  THEN [Issue(Enter(Deliver(tr[t], "shortening"), "Shortening"), "link")
                          EXCEPT !.calls.shorten = @ + 1,
                                 !.short_url = shorten_url(tr[t].drive_url, resp),
                                 !.shortenFailed = (resp # "200"),
                                 !.pc = "linkEdit"]
                ELSE Raise(tr[t], o, unlinkOk))
    /\ UNCHANGED <<started, globals>>

\* a shortener failure treated as an error once the link edit returned
LinkDelivered_FailsOnDegraded(r) ==
    IF r.shortenFailed THEN Except(Deliver(r, "link"))
    ELSE [Enter(Deliver(r, "link"), "Completed")
            EXCEPT !.linkUrl = r.short_url, !.calls.notify = @ + 1, !.pc = "notifySend"]

\* lines 448-451: the link is with the requester, the admin send is issued
LinkDelivered(r) ==
    [Enter(Deliver(r, "link"), "Completed")
       EXCEPT !.linkUrl = r.short_url, !.calls.notify = @ + 1, !.pc = "notifySend"]

\* line 448 returns; line 451 up to the await of line 88
LinkEdit(t) ==
    /\ tr[t].pc = "linkEdit"
    /\ \E o \in Outcomes, unlinkOk \in UnlinkOutcomes(tr[t]) :
         IF o = "ok"
           THEN /\ Set(t, LinkDelivered(tr[t]))
                /\ totals' = [totals EXCEPT
                     !.links = @ + 1,
                     !.notified = @ + LinkDelivered(tr[t]).calls.notify
                                    - tr[t].calls.notify]
         ELSE /\ Set(t, Raise(tr[t], o, unlinkOk))
              /\ UNCHANGED totals
    /\ UNCHANGED <<started, user_subscription_status, TELEGRAM_BOT_FOLDER_ID,
                   telethon_client, drive>>

\* send_download_notification without its try/except
send_download_notification_Propagates(o) ==
    IF o = "cancel" THEN "CancelledError"
    ELSE IF o = "err" THEN "Exception" ELSE "none"

\* send_download_notification, lines 75-92: what it raises to its caller
send_download_notification(o) ==
    IF o = "cancel" THEN "CancelledError" ELSE "none"

\* line 88 returns; lines 89-92, then the end of the try block and finally
NotifySend(t) ==
    /\ tr[t].pc = "notifySend"
    /\ \E o \in Outcomes, unlinkOk \in UnlinkOutcomes(tr[t]) :
         LET x == send_download_notification(o)
             r == [tr[t] EXCEPT !.notifyFailed = (o = "err")] IN
           Set(t, IF x = "Exception" THEN Except(r) ELSE Return(r, x, unlinkOk))
    /\ UNCHANGED <<started, globals>>

-----------------------------------------------------------------------------
\* ---- the other handlers that write the subscription cache ----

\* updates are handled one at a time: another handler runs only while no
\* handle_file is suspended
NoHandlerRunning == \A t \in DOMAIN tr : tr[t].pc \in {"idle", "done"}

\* lines 135-140: /help from user u checks the membership of a user that
\* is not cached and caches a member (with any other outcome, and for a
\* cached user, the handler only replies: no variable changes)
help_command ==
    /\ NoHandlerRunning
    /\ \E u \in Users \ user_subscription_status :
         /\ \E o \in Outcomes, status \in ChatStatuses : IsSubscribed(o, status)
         /\ user_subscription_status' = user_subscription_status \cup {u}
    /\ UNCHANGED <<tr, started, TELEGRAM_BOT_FOLDER_ID, telethon_client, drive, totals>>

\* lines 160-163: the "I've Subscribed" button of user u checks the
\* membership whatever the cache holds and sets the entry of a member to
\* True (for a cached user that changes nothing)
handle_subscription_callback ==
    /\ NoHandlerRunning
    /\ \E u \in Users \ user_subscription_status :
         /\ \E o \in Outcomes, status \in ChatStatuses : IsSubscribed(o, status)
         /\ user_subscription_status' = user_subscription_status \cup {u}
    /\ UNCHANGED <<tr, started, TELEGRAM_BOT_FOLDER_ID, telethon_client, drive, totals>>

-----------------------------------------------------------------------------
Next ==
  \/ help_command
  \/ handle_subscription_callback
  \/
    \E t \in DOMAIN tr :
        \/ Start(t)
        \/ NoUserReply(t)
        \/ CheckSub(t)
        \/ NotSubReply(t)
        \/ UnsupportedReply(t)
        \/ RejectReply(t)
        \/ StatusReply(t)
        \/ TelethonStart(t)
        \/ GetMe(t)
        \/ GetMessages(t)
        \/ IterDownload(t)
        \/ ProgressEdit(t)
        \/ GetFile(t)
        \/ DownloadToDrive(t)
        \/ DownloadFailedEdit(t)
        \/ DownloadCompleteEdit(t)
        \/ UploadingEdit(t)
        \/ UploadFailedEdit(t)
        \/ ShorteningEdit(t)
        \/ LinkEdit(t)
        \/ NotifySend(t)
        \/ SorryReply(t)

Spec == Init /\ [][Next]_vars

\* the handler slots
Slots == 1 .. MaxInFlight

\* the handler in slot t is resumed: the call it awaits returned or raised
Resume(t) ==
    \/ NoUserReply(t) \/ CheckSub(t) \/ NotSubReply(t) \/ UnsupportedReply(t)
    \/ RejectReply(t) \/ StatusReply(t) \/ TelethonStart(t) \/ GetMe(t)
    \/ GetMessages(t) \/ IterDownload(t) \/ ProgressEdit(t) \/ GetFile(t)
    \/ DownloadToDrive(t) \/ DownloadFailedEdit(t) \/ DownloadCompleteEdit(t)
    \/ UploadingEdit(t) \/ UploadFailedEdit(t) \/ ShorteningEdit(t)
    \/ LinkEdit(t) \/ NotifySend(t) \/ SorryReply(t)

\* every awaited call eventually returns or raises, and the event loop then
\* resumes the handler; when updates arrive is left open
SpecFair == Spec /\ \A t \in Slots : WF_vars(Resume(t))

-----------------------------------------------------------------------------
\* ---- properties ----

T == DOMAIN tr
Finished(t) == tr[t].pc = "done"
InPhases(t, p) == \E i \in 1 .. Len(tr[t].phases) : tr[t].phases[i] = p
\* the messages that tell the requester the transfer failed
FailureMessages == {"downloadFailed", "uploadFailed", "sorry"}
\* a declared size above a ceiling (an absent size is above nothing)
Above(s, limitMib) == s.known /\ Exceeds(s, limitMib)

\* C1 as stated: once handle_file has finished, a temporary file it
\* acquired does not exist, whatever the outcome.
C1_TempFileGone ==
    \A t \in T : (Finished(t) /\ tr[t].temp_file_path) => ~tr[t].file.exists

\* C1 amended: once handle_file has finished, the delete of an acquired
\* temporary file has been attempted, and the file does not exist unless
\* that os.unlink call raised.
C1_TempFileGoneUnlessUnlinkRaised ==
    \A t \in T :
        (Finished(t) /\ tr[t].temp_file_path) =>
            /\ tr[t].unlinks >= 1
            /\ tr[t].file.exists => tr[t].unlinkFailed

\* a transfer cancelled or failed after the acquisition, its file deleted
C1_Witness ==
    \E t \in T :
        /\ Finished(t) /\ tr[t].temp_file_path /\ ~tr[t].file.exists
        /\ Phase(tr[t]) = "Aborted" /\ tr[t].raised = "CancelledError"

\* C2: a transfer has exactly one admin send if it reached Completed and
\* none otherwise; over all transfers the admin sends number the links
\* delivered.
C2_NotificationGate ==
    /\ \A t \in T :
           tr[t].calls.notify = IF InPhases(t, "Completed") THEN 1 ELSE 0
    /\ totals.notified = totals.links
    /\ totals.links <= totals.admitted

\* two transfers admitted, one of them completed, one admin send
C2_Witness ==
    /\ \A t \in T : Finished(t)
    /\ totals = [admitted |-> 2, links |-> 1, notified |-> 1]

\* C3: the download stage fails exactly when both paths failed; after a
\* failed Path A and a successful Path B the transfer is Downloaded; after
\* two failures it is Aborted, the download-failed message is sent, and no
\* publish, shorten or notification call is made.
C3_DualPath ==
    \A t \in T :
        /\ tr[t].reason = "DownloadFailed"
             <=> (tr[t].pathA = "failed" /\ tr[t].pathB = "failed")
        /\ tr[t].pathB # "none" <=> tr[t].pathA = "failed"
        /\ (tr[t].pathA = "failed" /\ tr[t].pathB = "ok") => InPhases(t, "Downloaded")
        /\ (tr[t].pathA = "failed" /\ tr[t].pathB = "failed") =>
              /\ Phase(tr[t]) = "Aborted"
              /\ "downloadFailed" \in tr[t].sent
              /\ ~InPhases(t, "Downloaded")
              /\ tr[t].calls.publish = 0
              /\ tr[t].calls.shorten = 0
              /\ tr[t].calls.notify = 0

\* Path A failed, Path B succeeded, the link was delivered
C3_Witness ==
    \E t \in T :
        /\ tr[t].pathA = "failed" /\ tr[t].pathB = "ok"
        /\ Finished(t) /\ Phase(tr[t]) = "Completed"

\* C4 as stated: at most one folder-creation call is ever issued.
C4_OneCreateCall == drive.creates <= 1

\* C4 amended: at most one folder-creation call succeeds; once a folder id
\* is cached it never changes, no list or create call is issued any more,
\* and every publish that resolved a folder used the cached id.
C4_FolderMemo ==
    /\ [](drive.created <= 1)
    /\ [](\A t \in T : tr[t].parent # 0 => tr[t].parent = TELEGRAM_BOT_FOLDER_ID)
    /\ [][TELEGRAM_BOT_FOLDER_ID # 0 =>
             /\ TELEGRAM_BOT_FOLDER_ID' = TELEGRAM_BOT_FOLDER_ID
             /\ drive' = drive]_vars

\* the second transfer published into the folder the first one created,
\* with one list call and one create call in all
C4_Witness ==
    \E t \in T :
        /\ tr[t].id = 2 /\ tr[t].drive_url # NoUrl
        /\ tr[t].parent = TELEGRAM_BOT_FOLDER_ID
        /\ drive.lists = 1 /\ drive.creates = 1 /\ drive.created = 1
        /\ totals.links = 1

\* C5: the gate is an ordered chain: above the channel ceiling, rejected
\* for the channel; else above the store ceiling, rejected for the store;
\* else admitted; a size of zero or an absent size is admitted.
C5_GateChain ==
    \A t \in T :
        LET s == tr[t].upd.file_size IN
        tr[t].gate # "none" =>
            /\ tr[t].gate =
                 IF Above(s, TELEGRAM_LIMIT_MIB) THEN "TooLargeForChannel"
                 ELSE IF Above(s, MAX_FILE_SIZE_MIB) THEN "TooLargeForStore"
                 ELSE "Admitted"
            /\ (~s.known \/ s = Size(0, 0)) => tr[t].gate = "Admitted"
            /\ tr[t].gate = "Admitted" <=> InPhases(t, "Admitted")
            /\ tr[t].gate # "Admitted" => tr[t].gate \in tr[t].sent

\* a size above both ceilings was rejected for the channel
C5_Witness ==
    \E t \in T :
        /\ Above(tr[t].upd.file_size, MAX_FILE_SIZE_MIB)
        /\ tr[t].gate = "TooLargeForChannel"
        /\ "TooLargeForChannel" \in tr[t].delivered

\* C6 as stated: S > channel ceiling => TooLargeForChannel; channel ceiling
\* >= S > store ceiling => TooLargeForStore; S <= store ceiling => admitted.
C6_ThreeRanges ==
    \A t \in T :
        LET s == tr[t].upd.file_size IN
        (tr[t].gate # "none" /\ s.known) =>
            /\ Above(s, TELEGRAM_LIMIT_MIB) => tr[t].gate = "TooLargeForChannel"
            /\ (~Above(s, TELEGRAM_LIMIT_MIB) /\ Above(s, MAX_FILE_SIZE_MIB))
                  => tr[t].gate = "TooLargeForStore"
            /\ ~Above(s, MAX_FILE_SIZE_MIB) => tr[t].gate = "Admitted"

\* C6 amended: S > channel ceiling => TooLargeForChannel; S <= channel
\* ceiling => admitted; no S is rejected as TooLargeForStore (the channel
\* ceiling is below the store ceiling).
C6_TwoRanges ==
    \A t \in T :
        LET s == tr[t].upd.file_size IN
        (tr[t].gate # "none" /\ s.known) =>
            /\ Above(s, TELEGRAM_LIMIT_MIB) => tr[t].gate = "TooLargeForChannel"
            /\ ~Above(s, TELEGRAM_LIMIT_MIB) => tr[t].gate = "Admitted"
            /\ tr[t].gate # "TooLargeForStore"

\* a size of exactly the channel ceiling was admitted
C6_Witness ==
    \E t \in T :
        /\ tr[t].upd.file_size = Size(TELEGRAM_LIMIT_MIB, 0)
        /\ tr[t].gate = "Admitted" /\ InPhases(t, "Admitted")

\* C7: when a step of publish fails, there is no URL, the transfer is
\* Aborted with PublishFailed and its message is sent; no shortening call,
\* no link and no admin send.
C7_PublishFailed ==
    \A t \in T :
        (tr[t].publishFail \notin {"none", "ok"}) =>
            /\ tr[t].drive_url = NoUrl
            /\ Phase(tr[t]) = "Aborted" /\ tr[t].reason = "PublishFailed"
            /\ "uploadFailed" \in tr[t].sent
            /\ tr[t].calls.shorten = 0
            /\ "link" \notin tr[t].sent /\ tr[t].linkUrl = NoUrl
            /\ tr[t].calls.notify = 0

\* the permission step failed and the requester was told
C7_Witness ==
    \E t \in T :
        /\ tr[t].publishFail = "permission"
        /\ Finished(t) /\ "uploadFailed" \in tr[t].delivered

\* C8: when shortening failed, the short URL is the canonical URL, the link
\* edit is issued with it, and the transfer is Completed with that URL as
\* soon as the link edit returns.
C8_ShortenDegrades ==
    \A t \in T :
        tr[t].shortenFailed =>
            /\ tr[t].drive_url # NoUrl
            /\ tr[t].short_url = tr[t].drive_url
            /\ "link" \in tr[t].sent
            /\ "link" \in tr[t].delivered =>
                  (InPhases(t, "Completed") /\ tr[t].linkUrl = tr[t].drive_url)
            /\ Phase(tr[t]) = "Aborted" => "link" \notin tr[t].delivered

\* shortening failed and the canonical URL was delivered
C8_Witness ==
    \E t \in T :
        /\ tr[t].shortenFailed /\ Finished(t) /\ Phase(tr[t]) = "Completed"
        /\ tr[t].linkUrl = tr[t].drive_url /\ tr[t].raised = "none"

\* C9: when the admin send raised, the link had been delivered, no failure
\* message is sent, the handler returns without raising and the transfer
\* is Completed.
C9_NotifyFailureAbsorbed ==
    \A t \in T :
        tr[t].notifyFailed =>
            /\ "link" \in tr[t].delivered
            /\ tr[t].sent \cap FailureMessages = {}
            /\ Finished(t) /\ tr[t].raised = "none"
            /\ Phase(tr[t]) = "Completed"

\* the admin send raised
C9_Witness == \E t \in T : tr[t].notifyFailed /\ Finished(t)

\* C10 as stated: every transfer that ended Aborted because of an error
\* (the handler was not cancelled) has a failure message delivered, and no
\* admin send.
C10_FailureDelivered ==
    \A t \in T :
        (Finished(t) /\ Phase(tr[t]) = "Aborted" /\ tr[t].raised # "CancelledError") =>
            /\ tr[t].delivered \cap FailureMessages # {}
            /\ tr[t].calls.notify = 0

\* C10 amended: an Aborted transfer has no admin send; unless the handler
\* was cancelled a failure message was sent to the requester; and when the
\* handler returned without raising, a failure message was delivered.
C10_FailureSent ==
    \A t \in T :
        Phase(tr[t]) = "Aborted" =>
            /\ tr[t].calls.notify = 0
            /\ tr[t].raised # "CancelledError" =>
                  tr[t].sent \cap FailureMessages # {}
            /\ (Finished(t) /\ tr[t].raised = "none") =>
                  tr[t].delivered \cap FailureMessages # {}

\* a status edit failed after the download and the generic reply arrived
C10_Witness ==
    \E t \in T :
        /\ Finished(t) /\ Phase(tr[t]) = "Aborted" /\ tr[t].reason = "Error"
        /\ "downloadComplete" \in tr[t].sent \ tr[t].delivered
        /\ "sorry" \in tr[t].delivered

\* the phases of section 4.6, in order
PhaseOrder ==
    <<"Admitted", "Downloading", "Downloaded", "Uploading", "Uploaded",
      "Shortening", "Completed">>
\* the phases of a transfer before it ended Aborted, if it did
Progressed(r) ==
    IF Phase(r) = "Aborted" THEN SubSeq(r.phases, 1, Len(r.phases) - 1) ELSE r.phases
IsPrefix(s, q) == Len(s) <= Len(q) /\ \A i \in 1 .. Len(s) : s[i] = q[i]

\* C11: the phases a transfer went through are an initial part of Admitted,
\* Downloading, Downloaded, Uploading, Uploaded, Shortening, Completed (then
\* Aborted, if it failed): none skipped, none repeated.  Publish is called
\* only after a download path succeeded, shortening only after publish
\* returned a URL, the link is sent only after shortening returned, and the
\* admin send is issued only after the link was delivered.
C11_PhaseOrder ==
    \A t \in T :
        /\ IsPrefix(Progressed(tr[t]), PhaseOrder)
        /\ tr[t].calls.publish > 0 =>
              /\ tr[t].pathA = "ok" \/ tr[t].pathB = "ok"
              /\ InPhases(t, "Downloaded")
        /\ tr[t].calls.shorten > 0 =>
              (tr[t].drive_url # NoUrl /\ InPhases(t, "Uploaded"))
        /\ "link" \in tr[t].sent =>
              (tr[t].calls.shorten > 0 /\ tr[t].short_url # NoUrl)
        /\ tr[t].calls.notify > 0 => "link" \in tr[t].delivered

\* the end-to-end scenario: Path A, publish and shortening succeeded
C11_Witness ==
    \E t \in T :
        /\ Finished(t) /\ tr[t].phases = PhaseOrder /\ tr[t].raised = "none"
        /\ tr[t].pathA = "ok" /\ tr[t].short_url.kind = "tiny"
        /\ tr[t].calls.notify = 1

\* C12 as stated: the publish call and the shortening call are suspension
\* points: the step of a transfer that issues one of them ends with the
\* handler suspended inside the call, its result not yet there, so that
\* another transfer can take a step before the call returns.
C12_CallsSuspend ==
    [][\A t \in T :
          /\ tr'[t].calls.publish > tr[t].calls.publish =>
                (Phase(tr'[t]) = "Uploading" /\ tr'[t].drive_url = NoUrl)
          /\ tr'[t].calls.shorten > tr[t].calls.shorten =>
                (tr'[t].short_url = NoUrl /\ "link" \notin tr'[t].sent)]_vars

\* C13: the delete of a transfer's temporary file is attempted at most
\* once, only in the step that ends the handler (no step of the transfer
\* follows it), and exactly once when a handler that acquired a file has
\* ended, whether it returned, raised an Exception or was cancelled.
C13_ReleaseOnce ==
    \A t \in T :
        /\ tr[t].unlinks \in {0, 1}
        /\ tr[t].unlinks = 1 => (Finished(t) /\ tr[t].temp_file_path)
        /\ (Finished(t) /\ tr[t].temp_file_path) => tr[t].unlinks = 1
        /\ (tr[t].raised = "CancelledError" /\ tr[t].temp_file_path) =>
              (Finished(t) /\ tr[t].unlinks = 1)

\* the handler was cancelled while the link edit was pending
C13_Witness ==
    \E t \in T :
        /\ Finished(t) /\ tr[t].reason = "Cancelled" /\ Phase(tr[t]) = "Aborted"
        /\ InPhases(t, "Shortening") /\ tr[t].unlinks = 1

\* C14 as stated: a transfer that reached Uploaded and whose handler was not
\* cancelled ends Completed.
C14_UploadedCompletes ==
    \A t \in T :
        (Finished(t) /\ InPhases(t, "Uploaded") /\ tr[t].reason # "Cancelled") =>
            Phase(tr[t]) = "Completed"

\* C14 amended: a transfer that reached Uploaded is Completed exactly when
\* its link edit returned, whether or not shortening failed; it ends Aborted
\* only when the status edit of line 430 or the link edit of line 448 did
\* not return (it raised, or the handler was cancelled there), and then with
\* the generic error, never with a download or publish failure.
C14_UploadedCompletesIfEditsReturn ==
    \A t \in T :
        InPhases(t, "Uploaded") =>
            /\ tr[t].drive_url # NoUrl
            /\ InPhases(t, "Completed") <=> "link" \in tr[t].delivered
            /\ InPhases(t, "Completed") => Phase(tr[t]) = "Completed"
            /\ Phase(tr[t]) = "Aborted" =>
                  /\ tr[t].reason \in {"Error", "Cancelled"}
                  /\ \/ "shortening" \in tr[t].sent \ tr[t].delivered
                     \/ "link" \in tr[t].sent \ tr[t].delivered
            /\ Finished(t) => Phase(tr[t]) \in Terminal

\* the file was published and shortened, the link edit raised, and the
\* requester got the generic failure reply
C14_Witness ==
    \E t \in T :
        /\ Finished(t) /\ InPhases(t, "Shortening") /\ Phase(tr[t]) = "Aborted"
        /\ tr[t].reason = "Error" /\ tr[t].short_url # NoUrl
        /\ "link" \in tr[t].sent \ tr[t].delivered
        /\ "sorry" \in tr[t].delivered

\* a transfer inside the chunk loop of download_with_telethon
InChunkLoop(t) == tr[t].pc \in {"iterDownload", "progressEdit"}

\* C15 as stated: while Path A is downloading, the progress edits issued so
\* far number the multiples of 5 MiB the cumulative byte count has reached
\* or passed, whatever the chunk sizes.
C15_ProgressCadence ==
    \A t \in T :
        InChunkLoop(t) => tr[t].progress = tr[t].downloaded \div PROGRESS_STEP

\* C16: whatever a pending progress edit does (it returns, raises, or the
\* cancellation arrives there), the next step of the transfer is back in
\* the chunk loop with the file, the byte count and the phases as they were:
\* neither Path A nor the transfer fails by it.
C16_ProgressFailureSwallowed ==
    [][\A t \in T :
          tr[t].pc = "progressEdit" =>
              tr'[t] = [tr[t] EXCEPT !.pc = "iterDownload",
                                     !.progressFailed = tr'[t].progressFailed]]_vars

\* a progress edit failed at 5 MiB, a further chunk was written, Path A
\* returned success and the handler found all the bytes in the file
C16_Witness ==
    \E t \in T :
        /\ tr[t].progressFailed /\ tr[t].pathA = "ok" /\ tr[t].pathB = "none"
        /\ tr[t].downloaded_size = PROGRESS_STEP + PROGRESS_STEP \div 2
        /\ tr[t].file.bytes = tr[t].downloaded_size
        /\ Phase(tr[t]) = "Downloaded" /\ "downloadComplete" \in tr[t].sent

\* C17: the standard method is tried exactly when Path A returned failure;
\* once it succeeded, the temporary file holds its bytes and nothing of
\* Path A's, the size put in the download-complete message is its byte
\* count, and what is published is that content.
C17_FallbackOverwrites ==
    \A t \in T :
        /\ tr[t].calls.pathB > 0 <=> tr[t].pathA = "failed"
        /\ tr[t].partial => tr[t].pathA = "failed"
        /\ tr[t].pathB = "ok" =>
              /\ tr[t].file.exists =>
                    (tr[t].file.src = "B" /\ tr[t].file.bytes \in PathBSizes)
              /\ tr[t].downloaded_size \in PathBSizes
              /\ tr[t].file.exists => tr[t].downloaded_size = tr[t].file.bytes
              /\ tr[t].published # NoFile =>
                    /\ tr[t].published.src = "B"
                    /\ tr[t].published.bytes = tr[t].downloaded_size

\* Path A failed with bytes in the file, the standard method succeeded and
\* its content was published and delivered
C17_Witness ==
    \E t \in T :
        /\ tr[t].partial /\ tr[t].pathA = "failed" /\ tr[t].pathB = "ok"
        /\ tr[t].published.src = "B" /\ tr[t].drive_url # NoUrl
        /\ "downloadComplete" \in tr[t].delivered
        /\ Finished(t) /\ Phase(tr[t]) = "Completed"

\* C18: a transfer makes at most one Path A attempt, one attempt of the
\* standard method, one publish call, one shortening call and one admin
\* send; a stage that failed was attempted exactly once.
C18_NoRetry ==
    \A t \in T :
        /\ \A c \in DOMAIN NoCalls : tr[t].calls[c] \in {0, 1}
        /\ tr[t].pathA = "failed" => tr[t].calls.pathA = 1
        /\ tr[t].pathB = "failed" => tr[t].calls.pathB = 1
        /\ tr[t].publishFail \notin {"none", "ok"} => tr[t].calls.publish = 1
        /\ tr[t].shortenFailed => tr[t].calls.shorten = 1
        /\ tr[t].notifyFailed => tr[t].calls.notify = 1

\* Path A failed, shortening failed and the admin send failed: each stage
\* was attempted once and the transfer is over
C18_Witness ==
    \E t \in T :
        /\ Finished(t) /\ tr[t].pathA = "failed" /\ tr[t].shortenFailed
        /\ tr[t].notifyFailed
        /\ tr[t].calls = [pathA |-> 1, pathB |-> 1, publish |-> 1, shorten |-> 1,
                           notify |-> 1]

Rejections == {"TooLargeForChannel", "TooLargeForStore"}

\* C19 as stated: a request the size gate rejected has no temporary file,
\* no download, publish, shorten or notification call, and no message sent
\* but the rejection.
C19_RejectionOnly ==
    \A t \in T :
        tr[t].gate \in Rejections =>
            /\ ~tr[t].temp_file_path /\ tr[t].file = NoFile
            /\ tr[t].calls = NoCalls
            /\ tr[t].sent \subseteq {tr[t].gate}

\* C19 amended: a request the size gate rejected is no Transfer, has no
\* temporary file (none is created, none is deleted) and no download,
\* publish, shorten or notification call; the rejection is sent, and the
\* only other message is the generic failure reply, sent when the
\* rejection reply raised.
C19_RejectionThenNothing ==
    \A t \in T :
        tr[t].gate \in Rejections =>
            /\ ~tr[t].temp_file_path /\ tr[t].file = NoFile /\ tr[t].unlinks = 0
            /\ tr[t].calls = NoCalls
            /\ tr[t].phases = <<>>
            /\ tr[t].pathA = "none" /\ tr[t].pathB = "none"
            /\ tr[t].gate \in tr[t].sent
            /\ tr[t].sent \subseteq {tr[t].gate, "sorry"}
            /\ "sorry" \in tr[t].sent => tr[t].gate \notin tr[t].delivered

\* a rejection whose reply raised: the generic failure reply arrived
C19_Witness ==
    \E t \in T :
        /\ tr[t].gate = "TooLargeForChannel" /\ Finished(t)
        /\ tr[t].sent = {"TooLargeForChannel", "sorry"}
        /\ tr[t].delivered = {"sorry"}

\* C20 as stated: when every call returns, an admitted transfer ends
\* Completed or Aborted with its handler finished and its temporary file
\* gone.
C20_TerminatesFileGone ==
    \A t \in Slots :
        InPhases(t, "Admitted") ~>
            (Finished(t) /\ Phase(tr[t]) \in Terminal /\ ~tr[t].file.exists)

\* C20 amended: when every call returns, an admitted transfer ends
\* Completed or Aborted with its handler finished; if it had acquired a
\* temporary file, the delete was attempted once, and the file is gone
\* unless that os.unlink call raised.
C20_TerminatesReleaseAttempted ==
    \A t \in Slots :
        InPhases(t, "Admitted") ~>
            /\ Finished(t) /\ Phase(tr[t]) \in Terminal
            /\ tr[t].temp_file_path =>
                  /\ tr[t].unlinks = 1
                  /\ tr[t].file.exists => tr[t].unlinkFailed

\* a transfer aborted by a failed publish has ended, its file deleted
C20_Witness ==
    \E t \in T :
        /\ Finished(t) /\ Phase(tr[t]) = "Aborted" /\ tr[t].reason = "PublishFailed"
        /\ tr[t].chunks = 0 /\ tr[t].unlinks = 1 /\ ~tr[t].file.exists
        /\ tr[t].raised = "none"

\* handle_file has begun the work of a Transfer: the size gate ran, a
\* temporary file was acquired, or a download or publish call was made
TransferStarted(r) ==
    \/ r.gate # "none" \/ r.phases # <<>> \/ r.temp_file_path
    \/ r.calls # NoCalls

\* C21: the subscription cache only grows; handle_file reaches the size
\* gate, the temporary file, the download and the publish only for a user
\* who is in the cache (cached before, or added in this call after the
\* membership check answered member, administrator or creator); a call in
\* which the check raised or answered another status starts no Transfer,
\* and that check adds no entry to the cache.
C21_SubscriptionGate ==
    /\ [](\A t \in Slots :
            /\ TransferStarted(tr[t]) =>
                  /\ tr[t].upd.user \in user_subscription_status
                  /\ ~tr[t].checkFailed
            /\ tr[t].checkFailed =>
                  /\ tr[t].pc \in {"notSubReply", "done"}
                  /\ tr[t].sent \subseteq {"notSubscribed"}
                  /\ ~Finished(t) => tr[t].upd.user \notin user_subscription_status)
    /\ [][/\ user_subscription_status \subseteq user_subscription_status'
           /\ \A t \in Slots :
                 (tr'[t].checkFailed /\ tr[t].pc = "checkSub") =>
                     user_subscription_status' = user_subscription_status]_vars

\* the membership check raised or answered no membership: the user was
\* told to subscribe, nothing of a Transfer happened, the cache has no
\* entry for the user
C21_Witness ==
    \E t \in T :
        /\ tr[t].checkFailed /\ Finished(t) /\ tr[t].raised = "none"
        /\ tr[t].delivered = {"notSubscribed"}
        /\ ~TransferStarted(tr[t])
        /\ tr[t].upd.user \notin user_subscription_status

====
